---- MODULE Spec2Model ----
(***************************************************************************)
(* Keep Me Alive: the Persistence Cache (storage.py, gist_storage.py), the *)
(* Probe Worker (browser_worker.py) and the Scheduler (scheduler.py) as    *)
(* one state machine.                                                      *)
(*                                                                         *)
(* Python objects that the code shares by reference are heap cells here:   *)
(* dict.copy() is a shallow copy, so the "websites" list, every site dict  *)
(* and the "settings" dict of a Snapshot returned by _load_data are the    *)
(* very objects the cache (and DEFAULT_DATA) hold.  A thread step is one   *)
(* access to shared state (a global, a heap cell, a file, the gist) with   *)
(* the local computation around it; the two locks are variables.          *)
(***************************************************************************)
EXTENDS Integers, Sequences, FiniteSets, TLC

VARIABLES
  now,              \* the clock (datetime.now()), in minutes
  cache,            \* storage._cache: the references the cached dict holds
  cache_loaded,     \* storage._cache_loaded
  data_lock,        \* storage._data_lock: 0, or the thread holding it
  local_file,       \* data/websites.json
  gist_configured,  \* gist_storage.is_gist_configured()
  playwright_available, \* browser_worker.PLAYWRIGHT_AVAILABLE
  gist,             \* the remote blob
  wl,               \* heap: "websites" list objects, each a sequence of site cells
  so,               \* heap: site dict objects
  st,               \* heap: "settings" dict objects
  th,               \* every thread's position and locals
  scheduler,        \* scheduler._scheduler: 0 (None), or a BackgroundScheduler object
  sched_lock,       \* scheduler._scheduler_lock: 0, or the thread holding it
  sobj,             \* the BackgroundScheduler objects: state and job store
  is_running,       \* scheduler._is_running
  last_run_time,    \* scheduler._last_run_time (-1: None)
  next_run_time,    \* scheduler._next_run_time (-1: None)
  nvisits           \* number of visits made so far (bounds the run)

vars == <<now, cache, cache_loaded, data_lock, local_file, gist_configured,
          playwright_available, gist,
          wl, so, st, th, scheduler, sched_lock, sobj, is_running,
          last_run_time, next_run_time, nvisits>>

storeVars == <<cache, cache_loaded, data_lock, local_file, gist, wl, so, st>>
schedVars == <<scheduler, sched_lock, sobj, is_running, last_run_time, next_run_time>>

(***************************************************************************)
(* Bounds of the model.                                                    *)
(***************************************************************************)
NClients == 2       \* foreground (UI) threads
MaxPasses == 2      \* threads running _run_visits at once
MaxScheds == 2      \* BackgroundScheduler objects created in a run
MaxNow == 3         \* the clock stops here
MaxVisits == 1      \* visits made in a run
MaxSites == 2       \* sites in one "websites" list
MaxCells == 4       \* heap cells of each kind
MaxMsgLen == 200    \* the length an error message may have

Clients == 1..NClients
Passes == (NClients + 1)..(NClients + MaxPasses)
Threads == Clients \cup Passes
WIds == 1..MaxCells
SIds == 1..MaxCells
TIds == 1..MaxCells
SchedIds == 1..MaxScheds

Urls == {"a", "b"}
\* (interval_min, interval_max) passed to update_settings; 0 is an argument left None
SettingsInputs == {<<3, 3>>, <<3, 0>>}

(***************************************************************************)
(* Program constants.                                                      *)
(***************************************************************************)
HISTORY_MAX_AGE_DAYS == 3
MinutesPerDay == 1440
HistoryCap == 100
MinInterval == 1
MaxInterval == 60
DEFAULT_W == 1      \* the heap cell of DEFAULT_DATA["websites"]
DEFAULT_S == 1      \* the heap cell of DEFAULT_DATA["settings"]

NoSite == [id |-> -1, url |-> "", enabled |-> FALSE]
NoSett == [min |-> 0, max |-> 0]
NoData == [w |-> 0, s |-> 0, h |-> <<>>]
DefaultSettings == [min |-> 10, max |-> 14]
DEFAULT_DATA == [w |-> DEFAULT_W, s |-> DEFAULT_S, h |-> <<>>]
EmptySnapshot == [w |-> <<>>, s |-> DefaultSettings, h |-> <<>>]

Min(S) == CHOOSE x \in S : \A y \in S : x <= y
Range(f) == {f[i] : i \in DOMAIN f}

RECURSIVE SortedSeq(_)
SortedSeq(S) == IF S = {} THEN <<>> ELSE <<Min(S)>> \o SortedSeq(S \ {Min(S)})

\* str.lower() on the urls of the model
Lower(u) == CASE u = "A" -> "a" [] u = "B" -> "b" [] OTHER -> u

(***************************************************************************)
(* The heap: what is reachable, and what json writes and reads.            *)
(***************************************************************************)
Idle == [pc |-> "idle", op |-> "none", ret |-> "none", data |-> NoData,
         url |-> "", id |-> -1, site |-> 0, vmin |-> 0, vmax |-> 0,
         lo |-> 0, ival |-> 0, sites |-> <<>>, ok |-> FALSE, err |-> "",
         origin |-> 0, had |-> FALSE,
         shot |-> FALSE, browser |-> "none", exc |-> "none", at |-> "none",
         fetched |-> FALSE, results |-> <<>>]

LiveW(c, T) == ({DEFAULT_W, c.w} \cup {T[t].data.w : t \in Threads}) \ {0}
LiveT(c, T) == ({DEFAULT_S, c.s} \cup {T[t].data.s : t \in Threads}) \ {0}
LiveS(c, T, W) ==
  (UNION {Range(W[i]) : i \in LiveW(c, T)}
     \cup UNION {Range(T[t].sites) : t \in Threads}
     \cup {T[t].site : t \in Threads}) \ {0}

FreeW == WIds \ LiveW(cache, th)
FreeT == TIds \ LiveT(cache, th)
FreeS == SIds \ LiveS(cache, th, wl)

\* The next heap: the cells no reference reaches are returned to the free pool.
Collect(nwl, nso, nst) ==
  /\ wl' = [i \in WIds |-> IF i \in LiveW(cache', th') THEN nwl[i] ELSE <<>>]
  /\ so' = [i \in SIds |-> IF i \in LiveS(cache', th', nwl) THEN nso[i] ELSE NoSite]
  /\ st' = [i \in TIds |-> IF i \in LiveT(cache', th') THEN nst[i] ELSE NoSett]

\* json.dump(data): the document a Snapshot serializes to
SnapVal(d) == [w |-> [i \in 1..Len(wl[d.w]) |-> so[wl[d.w][i]]], s |-> st[d.s], h |-> d.h]

CanAlloc(val) == FreeW # {} /\ FreeT # {} /\ Cardinality(FreeS) >= Len(val.w)

\* json.load / json.loads: a document read back is made of fresh objects
Deserialize(val) ==
  LET w == Min(FreeW)
      t == Min(FreeT)
      ss == SubSeq(SortedSeq(FreeS), 1, Len(val.w))
  IN [data |-> [w |-> w, s |-> t, h |-> val.h],
      wl |-> [wl EXCEPT ![w] = ss],
      so |-> [i \in SIds |-> IF \E k \in 1..Len(ss) : ss[k] = i
                             THEN val.w[CHOOSE k \in 1..Len(ss) : ss[k] = i]
                             ELSE so[i]],
      st |-> [st EXCEPT ![t] = val.s]]

SameHeap(d) == [data |-> d, wl |-> wl, so |-> so, st |-> st]

FileOk(val) == [kind |-> "ok", val |-> val]
FileAbsent == [kind |-> "absent", val |-> EmptySnapshot]
FileCorrupt == [kind |-> "corrupt", val |-> EmptySnapshot]

(***************************************************************************)
(* gist_storage.py                                                         *)
(***************************************************************************)
\* What one GET can come back with: the request fails (network error, non-200),
\* or it returns the blob, which holds the file, lacks it, or is malformed.
FetchOutcomes == {"error", "non200", gist.kind}

\* load_from_gist: the parsed document on success; DEFAULT_DATA.copy() on every
\* failure: a dict of three keys, never an empty one.
SnapshotKeys == {"websites", "settings", "visit_history"}

load_from_gist(outcome) ==
  IF outcome = "ok" THEN [keys |-> SnapshotKeys, fresh |-> TRUE, val |-> gist.val]
  ELSE [keys |-> SnapshotKeys, fresh |-> FALSE, val |-> EmptySnapshot]

\* "if data:" on the result of load_from_gist: a dict is falsy only when empty
Truthy(r) == r.keys # {}

\* save_to_gist: the PATCH replaces the blob, or fails and leaves it
save_to_gist(d) == {gist, FileOk(SnapVal(d))}

(***************************************************************************)
(* storage.py: _load_data and _save_data                                   *)
(***************************************************************************)
\* _ensure_local_file: an absent file is created holding json.dump(DEFAULT_DATA)
ensure_local_file(f) == IF f.kind = "absent" THEN FileOk(SnapVal(DEFAULT_DATA)) ELSE f

Loaded(h, f) == [cache |-> h.data, loaded |-> TRUE, file |-> f,
                 wl |-> h.wl, so |-> h.so, st |-> h.st, data |-> h.data,
                 io |-> TRUE, fetch |-> FALSE]

\* lines 54-65: the local file, or DEFAULT_DATA.copy() when it cannot be parsed
LocalFallback ==
  LET f == ensure_local_file(local_file)
  IN IF f.kind = "corrupt" THEN {Loaded(SameHeap(DEFAULT_DATA), f)}
     ELSE IF CanAlloc(f.val) THEN {Loaded(Deserialize(f.val), f)} ELSE {}

\* lines 47-52
GistLoad(outcome) ==
  LET r == load_from_gist(outcome)
      adopted == IF ~Truthy(r) THEN LocalFallback
                 ELSE IF ~r.fresh THEN {Loaded(SameHeap(DEFAULT_DATA), local_file)}
                 ELSE IF CanAlloc(r.val) THEN {Loaded(Deserialize(r.val), local_file)} ELSE {}
  IN {[x EXCEPT !.fetch = TRUE] : x \in adopted}

\* _load_data, run under _data_lock: every result it can have in this state
LoadOutcomes ==
  IF cache_loaded /\ cache # NoData
  THEN {[cache |-> cache, loaded |-> TRUE, file |-> local_file,
         wl |-> wl, so |-> so, st |-> st, data |-> cache, io |-> FALSE, fetch |-> FALSE]}
  ELSE IF gist_configured THEN UNION {GistLoad(o) : o \in FetchOutcomes}
  ELSE LocalFallback

(***************************************************************************)
(* Thread steps shared by the entity-level operations.                     *)
(***************************************************************************)
Env == <<now, gist_configured, playwright_available>>

SetTh(t, r) == th' = [th EXCEPT ![t] = r]

\* what a finished call leaves of the thread: its name and what it returned
Done(op, ret) == [Idle EXCEPT !.op = op, !.ret = ret]

\* The caller of a Load step adopts one result r of _load_data.
Adopt(r) ==
  /\ cache' = r.cache
  /\ cache_loaded' = r.loaded
  /\ local_file' = r.file

BoolStr(b) == IF b THEN "true" ELSE "false"

\* where a thread goes when _save_data returns
AfterSave(t) ==
  CASE th[t].op = "add_website" -> Done("add_website", "true")
    [] th[t].op = "remove_website" -> Done("remove_website", "true")
    [] th[t].op = "toggle_website" ->
         Done("toggle_website", BoolStr(so[th[t].site].enabled))
    [] th[t].op = "run_visits" ->
         [th[t] EXCEPT !.pc = "visit", !.data = NoData, !.sites = Tail(th[t].sites),
                       !.results = Append(@, [url |-> th[t].url, success |-> th[t].ok]),
                       !.url = "", !.ok = FALSE, !.err = ""]
    [] th[t].op = "visit" -> [th[t] EXCEPT !.pc = "v_return", !.data = NoData]
    [] OTHER -> Done(th[t].op, "none")

\* _save_data without line 73: the cache keeps the Snapshot it held
save_data_cache_stale(t) ==
  /\ th[t].pc = "save"
  /\ data_lock = 0
  /\ data_lock' = t
  /\ cache' = cache
  /\ gist' \in (IF gist_configured THEN save_to_gist(th[t].data) ELSE {gist})
  /\ SetTh(t, [th[t] EXCEPT !.pc = "save_local"])
  /\ Collect(wl, so, st)
  /\ UNCHANGED <<cache_loaded, local_file, Env, schedVars, nvisits>>

\* _save_data lines 72-77: take the lock, replace the cache, push to the gist
save_data_cache(t) ==
  /\ th[t].pc = "save"
  /\ data_lock = 0
  /\ data_lock' = t
  /\ cache' = th[t].data
  /\ gist' \in (IF gist_configured THEN save_to_gist(th[t].data) ELSE {gist})
  /\ SetTh(t, [th[t] EXCEPT !.pc = "save_local"])
  /\ Collect(wl, so, st)
  /\ UNCHANGED <<cache_loaded, local_file, Env, schedVars, nvisits>>

\* _save_data lines 80-85: write the local file, release the lock
save_data_local(t) ==
  /\ th[t].pc = "save_local"
  /\ data_lock = t
  /\ data_lock' = 0
  /\ local_file' = FileOk(SnapVal(th[t].data))
  /\ SetTh(t, AfterSave(t))
  /\ UNCHANGED <<cache, cache_loaded, gist, Env, schedVars, nvisits>>
  /\ Collect(wl, so, st)

(***************************************************************************)
(* storage.py: the entity-level operations, called by a foreground thread  *)
(***************************************************************************)
Call(t) == t \in Clients /\ th[t].pc = "idle" /\ data_lock = 0

Start(op, d) == [Idle EXCEPT !.op = op, !.data = d]

\* add_website comparing the urls as they are written
add_website_load_exact(t, url) ==
  /\ Call(t)
  /\ \E r \in LoadOutcomes :
       LET lst == r.wl[r.data.w]
           dup == \E i \in 1..Len(lst) : r.so[lst[i]].url = url
       IN /\ Len(lst) < MaxSites
          /\ Adopt(r)
          /\ SetTh(t, IF dup THEN Done("add_website", "false")
                      ELSE [Start("add_website", r.data) EXCEPT !.pc = "append", !.url = url])
          /\ Collect(r.wl, r.so, r.st)
  /\ UNCHANGED <<data_lock, gist, Env, schedVars, nvisits>>

\* add_website lines 106-111: load, then look for the url
add_website_load(t, url) ==
  /\ Call(t)
  /\ \E r \in LoadOutcomes :
       LET lst == r.wl[r.data.w]
           dup == \E i \in 1..Len(lst) : Lower(r.so[lst[i]].url) = Lower(url)
       IN /\ Len(lst) < MaxSites
          /\ Adopt(r)
          /\ SetTh(t, IF dup THEN Done("add_website", "false")
                      ELSE [Start("add_website", r.data) EXCEPT !.pc = "append", !.url = url])
          /\ Collect(r.wl, r.so, r.st)
  /\ UNCHANGED <<data_lock, gist, Env, schedVars, nvisits>>

\* add_website lines 114-121: the new dict, appended to the list data holds
add_website_append(t) ==
  /\ th[t].pc = "append"
  /\ FreeS # {}
  /\ LET c == Min(FreeS)
     IN /\ SetTh(t, [th[t] EXCEPT !.pc = "save"])
        /\ UNCHANGED cache
        /\ Collect([wl EXCEPT ![th[t].data.w] = Append(@, c)],
                   [so EXCEPT ![c] = [id |-> now, url |-> th[t].url, enabled |-> TRUE]],
                   st)
  /\ UNCHANGED <<cache_loaded, data_lock, local_file, gist, Env, schedVars, nvisits>>

\* remove_website lines 128-135
remove_website_load(t, id) ==
  /\ Call(t)
  /\ \E r \in LoadOutcomes :
       LET lst == r.wl[r.data.w]
           kept == SelectSeq(lst, LAMBDA c : r.so[c].id # id)
           free == WIds \ (LiveW(cache, th) \cup {r.data.w})
       IN /\ Adopt(r)
          /\ IF Len(kept) < Len(lst)
             THEN /\ free # {}
                  /\ SetTh(t, [Start("remove_website", [r.data EXCEPT !.w = Min(free)])
                                 EXCEPT !.pc = "save", !.id = id])
                  /\ Collect([r.wl EXCEPT ![Min(free)] = kept], r.so, r.st)
             ELSE /\ SetTh(t, Done("remove_website", "false"))
                  /\ Collect(r.wl, r.so, r.st)
  /\ UNCHANGED <<data_lock, gist, Env, schedVars, nvisits>>

\* toggle_website lines 140-142, 146: load, then find the site
toggle_website_load(t, id) ==
  /\ Call(t)
  /\ \E r \in LoadOutcomes :
       LET lst == r.wl[r.data.w]
           hits == {i \in 1..Len(lst) : r.so[lst[i]].id = id}
       IN /\ Adopt(r)
          /\ SetTh(t, IF hits = {} THEN Done("toggle_website", "false")
                      ELSE [Start("toggle_website", r.data)
                              EXCEPT !.pc = "toggle", !.id = id, !.site = lst[Min(hits)]])
          /\ Collect(r.wl, r.so, r.st)
  /\ UNCHANGED <<data_lock, gist, Env, schedVars, nvisits>>

\* toggle_website line 143: the site dict is changed where it is
toggle_website_set(t) ==
  /\ th[t].pc = "toggle"
  /\ SetTh(t, [th[t] EXCEPT !.pc = "save"])
  /\ UNCHANGED cache
  /\ Collect(wl, [so EXCEPT ![th[t].site].enabled = ~@], st)
  /\ UNCHANGED <<cache_loaded, data_lock, local_file, gist, Env, schedVars, nvisits>>

AfterLoadSettings(mn, mx) == IF mn # 0 THEN "set_min" ELSE IF mx # 0 THEN "set_max" ELSE "save"

\* update_settings lines 159-160 (0 stands for an argument left None)
update_settings_load(t, mn, mx) ==
  /\ Call(t)
  /\ \E r \in LoadOutcomes :
       /\ Adopt(r)
       /\ SetTh(t, [Start("update_settings", r.data)
                      EXCEPT !.pc = AfterLoadSettings(mn, mx), !.vmin = mn, !.vmax = mx])
       /\ Collect(r.wl, r.so, r.st)
  /\ UNCHANGED <<data_lock, gist, Env, schedVars, nvisits>>

\* update_settings lines 162-163: written into the dict data["settings"] is
update_settings_min(t) ==
  /\ th[t].pc = "set_min"
  /\ SetTh(t, [th[t] EXCEPT !.pc = AfterLoadSettings(0, th[t].vmax)])
  /\ UNCHANGED cache
  /\ Collect(wl, so, [st EXCEPT ![th[t].data.s].min = th[t].vmin])
  /\ UNCHANGED <<cache_loaded, data_lock, local_file, gist, Env, schedVars, nvisits>>

\* update_settings lines 164-165
update_settings_max(t) ==
  /\ th[t].pc = "set_max"
  /\ SetTh(t, [th[t] EXCEPT !.pc = "save"])
  /\ UNCHANGED cache
  /\ Collect(wl, so, [st EXCEPT ![th[t].data.s].max = th[t].vmax])
  /\ UNCHANGED <<cache_loaded, data_lock, local_file, gist, Env, schedVars, nvisits>>

\* the "timestamp" of a record that datetime.fromisoformat cannot parse
InvalidTs == -1000000

\* _cleanup_old_history keeping every record
cleanup_old_history_keep(history, clock) == history

\* _cleanup_old_history: the records younger than HISTORY_MAX_AGE_DAYS, and, by
\* the except clause, those whose timestamp cannot be parsed
cleanup_old_history(history, clock) ==
  SelectSeq(history, LAMBDA rec : \/ rec.ts = InvalidTs
                                  \/ rec.ts > clock - HISTORY_MAX_AGE_DAYS * MinutesPerDay)

\* history[:n] without the bound
TakeAll(s, n) == s

Take(s, n) == SubSeq(s, 1, IF Len(s) < n THEN Len(s) ELSE n)

\* add_visit_record lines 202-218, on the Snapshot d just loaded
add_visit_record(d, url, ok, err) ==
  LET record == [url |-> url, ts |-> now, ok |-> ok, err |-> err]
      history == cleanup_old_history(d.h, now)
  IN [d EXCEPT !.h = Take(<<record>> \o history, HistoryCap)]

\* what one visit_website call can report to add_visit_record
VisitOutcomes ==
  {[ok |-> TRUE, err |-> ""], [ok |-> FALSE, err |-> "Timeout"], [ok |-> FALSE, err |-> "Error"]}

\* visit_website_sync from the UI: the visit, then add_visit_record's load
visit_website_load(t, url) ==
  /\ Call(t)
  /\ nvisits < MaxVisits
  /\ nvisits' = nvisits + 1
  /\ \E r \in LoadOutcomes, v \in VisitOutcomes :
       /\ Adopt(r)
       /\ SetTh(t, [Start("visit_website", add_visit_record(r.data, url, v.ok, v.err))
                      EXCEPT !.pc = "save", !.url = url, !.ok = v.ok, !.err = v.err])
       /\ Collect(r.wl, r.so, r.st)
  /\ UNCHANGED <<data_lock, gist, Env, schedVars>>

(***************************************************************************)
(* browser_worker.py: visit_website, path by path                          *)
(***************************************************************************)
TimeoutMsg == "Timeout"              \* "Timeout: Page took too long to load"
ErrorMsg == "Error"                  \* str(e)
LongErrorMsg == "LongError"          \* str(e) of an exception with a long text
NotInstalledMsg == "Not installed"   \* "Playwright not installed. Run: ..."

\* how an awaited Playwright call can end: it returns, raises TimeoutError
\* (PlaywrightTimeout), or raises another exception, whose text is short or long
CallOutcomes == {"ok", "timeout", "error", "long_error"}

\* line 89: str(e), the whole text of the exception
ExcText(kind) == IF kind = "long_error" THEN LongErrorMsg ELSE ErrorMsg

\* the length of a message: the literals of lines 37 and 83, and the texts of
\* the exceptions, of which the long one is longer than MaxMsgLen
MsgLen(m) ==
  CASE m = "" -> 0
    [] m = TimeoutMsg -> 35
    [] m = NotInstalledMsg -> 58
    [] m = ErrorMsg -> 5
    [] m = LongErrorMsg -> MaxMsgLen + 1

\* the exception leaves the try block from the call it was raised in
Raise(t, where, kind) == [th[t] EXCEPT !.pc = "v_except", !.exc = kind, !.at = where]

\* lines 36-40: the call, and the early return when playwright is missing
visit_website_call(t, url, take_screenshot) ==
  /\ t \in Clients /\ th[t].pc = "idle"
  /\ nvisits < MaxVisits
  /\ nvisits' = nvisits + 1
  /\ SetTh(t, IF ~playwright_available
              THEN [Idle EXCEPT !.op = "visit", !.ret = "returned", !.url = url,
                                !.shot = take_screenshot, !.ok = FALSE,
                                !.err = NotInstalledMsg]
              ELSE [Idle EXCEPT !.op = "visit", !.pc = "v_launch", !.url = url,
                                !.shot = take_screenshot])
  /\ UNCHANGED <<storeVars, Env, schedVars>>

\* lines 42-48: async_playwright() entered, chromium launched
visit_launch(t) ==
  /\ th[t].pc = "v_launch"
  /\ \E o \in CallOutcomes :
       SetTh(t, IF o = "ok" THEN [th[t] EXCEPT !.pc = "v_goto", !.browser = "open"]
                ELSE Raise(t, "launch", o))
  /\ UNCHANGED <<storeVars, Env, schedVars, nvisits>>

\* lines 50-64: context, page, page.goto(url, timeout=30000), the two seconds
visit_goto(t) ==
  /\ th[t].pc = "v_goto"
  /\ \E o \in CallOutcomes :
       SetTh(t, IF o = "ok"
                THEN [th[t] EXCEPT !.pc = IF th[t].shot THEN "v_shot" ELSE "v_close"]
                ELSE Raise(t, "goto", o))
  /\ UNCHANGED <<storeVars, Env, schedVars, nvisits>>

\* lines 66-72: page.screenshot
visit_screenshot(t) ==
  /\ th[t].pc = "v_shot"
  /\ \E o \in CallOutcomes :
       SetTh(t, IF o = "ok" THEN [th[t] EXCEPT !.pc = "v_close"]
                ELSE Raise(t, "screenshot", o))
  /\ UNCHANGED <<storeVars, Env, schedVars, nvisits>>

\* line 74: browser.close()
visit_close(t) ==
  /\ th[t].pc = "v_close"
  /\ \E o \in {"ok", "error"} :
       SetTh(t, IF o = "ok" THEN [th[t] EXCEPT !.pc = "v_record", !.browser = "closed"]
                ELSE Raise(t, "close", o))
  /\ UNCHANGED <<storeVars, Env, schedVars, nvisits>>

\* line 77: add_visit_record(url, True, ...), up to its _save_data
visit_record(t) ==
  /\ th[t].pc = "v_record"
  /\ data_lock = 0
  /\ \E r \in LoadOutcomes :
       /\ Adopt(r)
       /\ SetTh(t, [th[t] EXCEPT !.pc = "save", !.ok = TRUE, !.err = "",
                                 !.data = add_visit_record(r.data, th[t].url, TRUE, "")])
       /\ Collect(r.wl, r.so, r.st)
  /\ UNCHANGED <<data_lock, gist, Env, schedVars, nvisits>>

\* the handlers with an async with block that leaves the browser as it is
visit_except_leak(t) ==
  /\ th[t].pc = "v_except"
  /\ data_lock = 0
  /\ \E r \in LoadOutcomes :
       LET error_msg == IF th[t].exc = "timeout" THEN TimeoutMsg ELSE ExcText(th[t].exc)
       IN /\ Adopt(r)
          /\ SetTh(t, [th[t] EXCEPT
                !.pc = "save", !.ok = FALSE, !.err = error_msg,
                !.data = add_visit_record(r.data, th[t].url, FALSE, error_msg)])
          /\ Collect(r.wl, r.so, r.st)
  /\ UNCHANGED <<data_lock, gist, Env, schedVars, nvisits>>

\* lines 42, 81-91: the exception leaves the async with block, which stops
\* playwright and with it the browser it launched; then the handler, up to
\* the _save_data of its add_visit_record
visit_except(t) ==
  /\ th[t].pc = "v_except"
  /\ data_lock = 0
  /\ \E r \in LoadOutcomes :
       LET error_msg == IF th[t].exc = "timeout" THEN TimeoutMsg ELSE ExcText(th[t].exc)
       IN /\ Adopt(r)
          /\ SetTh(t, [th[t] EXCEPT
                !.pc = "save", !.ok = FALSE, !.err = error_msg,
                !.browser = IF @ = "open" THEN "closed" ELSE @,
                !.data = add_visit_record(r.data, th[t].url, FALSE, error_msg)])
          /\ Collect(r.wl, r.so, r.st)
  /\ UNCHANGED <<data_lock, gist, Env, schedVars, nvisits>>

\* lines 79, 85, 91: the outcome goes to the caller
visit_return(t) ==
  /\ th[t].pc = "v_return"
  /\ SetTh(t, [th[t] EXCEPT !.pc = "idle", !.ret = "returned"])
  /\ UNCHANGED <<storeVars, Env, schedVars, nvisits>>

\* clear_visit_history lines 232-233
clear_visit_history_load(t) ==
  /\ Call(t)
  /\ \E r \in LoadOutcomes :
       /\ Adopt(r)
       /\ SetTh(t, [Start("clear_visit_history", [r.data EXCEPT !.h = <<>>]) EXCEPT !.pc = "save"])
       /\ Collect(r.wl, r.so, r.st)
  /\ UNCHANGED <<data_lock, gist, Env, schedVars, nvisits>>

\* refresh_cache without lines 92-93: the cache is kept
refresh_cache_invalidate_keep(t) ==
  /\ Call(t)
  /\ cache' = cache
  /\ cache_loaded' = cache_loaded
  /\ SetTh(t, [Idle EXCEPT !.op = "refresh_cache", !.pc = "reload"])
  /\ UNCHANGED <<data_lock, local_file, gist, Env, schedVars, nvisits>>
  /\ Collect(wl, so, st)

\* refresh_cache lines 91-93
refresh_cache_invalidate(t) ==
  /\ Call(t)
  /\ cache' = NoData
  /\ cache_loaded' = FALSE
  /\ SetTh(t, [Idle EXCEPT !.op = "refresh_cache", !.pc = "reload"])
  /\ UNCHANGED <<data_lock, local_file, gist, Env, schedVars, nvisits>>
  /\ Collect(wl, so, st)

\* refresh_cache line 94
refresh_cache_load(t) ==
  /\ th[t].pc = "reload"
  /\ data_lock = 0
  /\ \E r \in LoadOutcomes :
       /\ Adopt(r)
       /\ SetTh(t, [Done("refresh_cache", "none") EXCEPT !.had = r.io, !.fetched = r.fetch])
       /\ Collect(r.wl, r.so, r.st)
  /\ UNCHANGED <<data_lock, gist, Env, schedVars, nvisits>>

\* get_websites, get_settings, get_visit_history from the UI: one _load_data
get_data(t) ==
  /\ Call(t)
  /\ \E r \in LoadOutcomes :
       /\ Adopt(r)
       /\ SetTh(t, [Done("get", "none") EXCEPT !.had = r.io, !.fetched = r.fetch])
       /\ Collect(r.wl, r.so, r.st)
  /\ UNCHANGED <<data_lock, gist, Env, schedVars, nvisits>>

\* the clock
Tick ==
  /\ now < MaxNow
  /\ now' = now + 1
  /\ UNCHANGED <<storeVars, gist_configured, playwright_available, th, schedVars, nvisits>>

(***************************************************************************)
(* scheduler.py.  A BackgroundScheduler object o is sobj[o]: its state     *)
(* ("new" until created, then "running", then "stopped" after shutdown)    *)
(* and its job store, which holds at most the job "keep_alive_job":        *)
(* job = NoJob, PausedJob (added with next_run_time=None) or its next fire *)
(* time, and ival, the interval of its trigger.  A timer pass keeps the    *)
(* object whose executor runs it in th[p].origin (0 for a manual pass).    *)
(***************************************************************************)
NoJob == -1
PausedJob == -2
None == -1          \* _last_run_time, _next_run_time

FreshSched == [state |-> "new", job |-> NoJob, ival |-> 0]

InFlight(o) == \E p \in Passes : th[p].pc # "idle" /\ th[p].origin = o

\* objects start_scheduler can construct: those no reference and no running job holds
Constructible == {o \in SchedIds : /\ o # scheduler
                                   /\ sobj[o].state = "new"
                                   /\ ~InFlight(o)}

FreePass == {p \in Passes : th[p].pc = "idle"}

NewPass(o) == [Idle EXCEPT !.pc = "rv_begin", !.op = "run_visits", !.origin = o]

\* a thread in _get_random_interval goes on in its caller, or leaves it by the except clause
IsPass(t) == th[t].op = "run_visits"

Leave(t) == IF IsPass(t) THEN Idle ELSE Done(th[t].op, "false")

\* IntervalTrigger.get_next_fire_time: the first fire time after the clock
RECURSIVE NextFire(_, _, _)
NextFire(prev, ival, clock) ==
  IF prev + ival > clock THEN prev + ival ELSE NextFire(prev + ival, ival, clock)

\* APScheduler runs the due job in its executor and moves the job to its next fire time
timer_fire(o) ==
  /\ sobj[o].state = "running"
  /\ sobj[o].job >= 0
  /\ now >= sobj[o].job
  /\ ~InFlight(o)
  /\ FreePass # {}
  /\ sobj' = [sobj EXCEPT ![o].job = NextFire(@, sobj[o].ival, now)]
  /\ SetTh(Min(FreePass), NewPass(o))
  /\ UNCHANGED <<storeVars, Env, scheduler, sched_lock, is_running,
                 last_run_time, next_run_time, nvisits>>

\* max_instances=1: a due job whose last run has not returned is skipped
timer_skip(o) ==
  /\ sobj[o].state = "running"
  /\ sobj[o].job >= 0
  /\ now >= sobj[o].job
  /\ InFlight(o)
  /\ sobj' = [sobj EXCEPT ![o].job = NextFire(@, sobj[o].ival, now)]
  /\ UNCHANGED <<storeVars, Env, th, scheduler, sched_lock, is_running,
                 last_run_time, next_run_time, nvisits>>

\* _run_visits lines 41-42
run_visits_begin(p) ==
  /\ th[p].pc = "rv_begin"
  /\ is_running' = TRUE
  /\ last_run_time' = now
  /\ SetTh(p, [th[p] EXCEPT !.pc = "rv_sites"])
  /\ UNCHANGED <<storeVars, Env, scheduler, sched_lock, sobj, next_run_time, nvisits>>

\* _run_visits lines 45-48, 55: get_websites(), then the enabled ones
run_visits_sites(p) ==
  /\ th[p].pc = "rv_sites"
  /\ data_lock = 0
  /\ \E r \in LoadOutcomes :
       LET enabled_sites == SelectSeq(r.wl[r.data.w], LAMBDA c : r.so[c].enabled)
       IN /\ Adopt(r)
          /\ SetTh(p, [th[p] EXCEPT !.pc = IF enabled_sites = <<>> THEN "rv_finally"
                                           ELSE "va_settings",
                                    !.sites = enabled_sites])
          /\ Collect(r.wl, r.so, r.st)
  /\ UNCHANGED <<data_lock, gist, Env, schedVars, nvisits>>

\* visit_all_websites lines 101-102: get_settings()
visit_all_settings(p) ==
  /\ th[p].pc = "va_settings"
  /\ data_lock = 0
  /\ \E r \in LoadOutcomes :
       /\ Adopt(r)
       /\ SetTh(p, [th[p] EXCEPT !.pc = "visit"])
       /\ Collect(r.wl, r.so, r.st)
  /\ UNCHANGED <<data_lock, gist, Env, schedVars, nvisits>>

\* visit_all_websites without the test of line 106: every site is visited
visit_all_next_noskip(p) ==
  /\ th[p].pc = "visit"
  /\ th[p].sites # <<>>
  /\ data_lock = 0
  /\ nvisits < MaxVisits
  /\ nvisits' = nvisits + 1
  /\ \E r \in LoadOutcomes, v \in VisitOutcomes :
       /\ Adopt(r)
       /\ SetTh(p, [th[p] EXCEPT
             !.pc = "save", !.ok = v.ok, !.err = v.err,
             !.url = r.so[Head(th[p].sites)].url,
             !.data = add_visit_record(r.data, r.so[Head(th[p].sites)].url, v.ok, v.err)])
       /\ Collect(r.wl, r.so, r.st)
  /\ UNCHANGED <<data_lock, gist, Env, schedVars>>

\* visit_all_websites lines 105-118: the next site, visited and recorded if enabled
visit_all_next(p) ==
  /\ th[p].pc = "visit"
  /\ th[p].sites # <<>>
  /\ IF so[Head(th[p].sites)].enabled
     THEN /\ data_lock = 0
          /\ nvisits < MaxVisits
          /\ nvisits' = nvisits + 1
          /\ \E r \in LoadOutcomes, v \in VisitOutcomes :
               /\ Adopt(r)
               /\ SetTh(p, [th[p] EXCEPT
                     !.pc = "save", !.ok = v.ok, !.err = v.err,
                     !.url = r.so[Head(th[p].sites)].url,
                     !.data = add_visit_record(r.data, r.so[Head(th[p].sites)].url, v.ok, v.err)])
               /\ Collect(r.wl, r.so, r.st)
     ELSE /\ SetTh(p, [th[p] EXCEPT !.sites = Tail(@)])
          /\ UNCHANGED <<cache, cache_loaded, local_file, nvisits>>
          /\ Collect(wl, so, st)
  /\ UNCHANGED <<data_lock, gist, Env, schedVars>>

\* visit_all_websites line 120, back in _run_visits
visit_all_return(p) ==
  /\ th[p].pc = "visit"
  /\ th[p].sites = <<>>
  /\ SetTh(p, [th[p] EXCEPT !.pc = "rv_finally", !.results = <<>>])
  /\ UNCHANGED <<storeVars, Env, schedVars, nvisits>>

\* _run_visits line 60
run_visits_finally(p) ==
  /\ th[p].pc = "rv_finally"
  /\ is_running' = FALSE
  /\ SetTh(p, [th[p] EXCEPT !.pc = "rs_check", !.sites = <<>>])
  /\ UNCHANGED <<cache, cache_loaded, data_lock, local_file, gist, Env, scheduler,
                 sched_lock, sobj, last_run_time, next_run_time, nvisits>>
  /\ Collect(wl, so, st)

\* _reschedule_with_random_interval lines 69-70
reschedule_check(p) ==
  /\ th[p].pc = "rs_check"
  /\ SetTh(p, IF scheduler = 0 THEN Idle ELSE [th[p] EXCEPT !.pc = "rs_jobs"])
  /\ UNCHANGED <<storeVars, Env, schedVars, nvisits>>

\* lines 74-76: _scheduler.get_jobs(); on None the AttributeError ends in the except clause
reschedule_get_jobs(p) ==
  /\ th[p].pc = "rs_jobs"
  /\ SetTh(p, IF scheduler = 0 THEN Idle
              ELSE IF sobj[scheduler].job # NoJob THEN [th[p] EXCEPT !.pc = "rs_remove"]
              ELSE [th[p] EXCEPT !.pc = "draw"])
  /\ UNCHANGED <<storeVars, Env, schedVars, nvisits>>

\* line 77: _scheduler.remove_job; a job already gone raises JobLookupError
reschedule_remove_job(p) ==
  /\ th[p].pc = "rs_remove"
  /\ IF scheduler = 0 \/ sobj[scheduler].job = NoJob
     THEN SetTh(p, Idle) /\ UNCHANGED sobj
     ELSE /\ sobj' = [sobj EXCEPT ![scheduler].job = NoJob]
          /\ SetTh(p, [th[p] EXCEPT !.pc = "draw"])
  /\ UNCHANGED <<storeVars, Env, scheduler, sched_lock, is_running,
                 last_run_time, next_run_time, nvisits>>

\* _get_random_interval line 31: get_settings()
get_random_interval_settings(t) ==
  /\ th[t].pc = "draw"
  /\ data_lock = 0
  /\ \E r \in LoadOutcomes :
       /\ Adopt(r)
       /\ SetTh(t, [th[t] EXCEPT !.pc = "draw_min", !.data = r.data])
       /\ Collect(r.wl, r.so, r.st)
  /\ UNCHANGED <<data_lock, gist, Env, schedVars, nvisits>>

\* line 32: settings.get("interval_min", 10)
get_random_interval_min(t) ==
  /\ th[t].pc = "draw_min"
  /\ SetTh(t, [th[t] EXCEPT !.pc = "draw_max", !.lo = st[th[t].data.s].min])
  /\ UNCHANGED <<storeVars, Env, schedVars, nvisits>>

\* random.randint(a, b): any of a..b; ValueError when the range is empty
randint(a, b) == a..b

\* lines 33-34: settings.get("interval_max", 14), then the draw; a ValueError
\* ends in the caller's except clause
get_random_interval_max(t) ==
  /\ th[t].pc = "draw_max"
  /\ LET hi == st[th[t].data.s].max
     IN IF randint(th[t].lo, hi) = {}
        THEN /\ SetTh(t, Leave(t))
             /\ sched_lock' = IF sched_lock = t THEN 0 ELSE sched_lock
        ELSE /\ \E i \in randint(th[t].lo, hi) :
                  SetTh(t, [th[t] EXCEPT !.pc = "set_next", !.lo = 0, !.ival = i,
                                         !.data = NoData])
             /\ UNCHANGED sched_lock
  /\ UNCHANGED <<cache, cache_loaded, data_lock, local_file, gist, Env, scheduler, sobj,
                 is_running, last_run_time, next_run_time, nvisits>>
  /\ Collect(wl, so, st)

\* scheduler.py lines 82 and 114: _next_run_time = now + the interval drawn
set_next_run_time(t) ==
  /\ th[t].pc = "set_next"
  /\ next_run_time' = now + th[t].ival
  /\ SetTh(t, [th[t] EXCEPT !.pc = "add_job"])
  /\ UNCHANGED <<storeVars, Env, scheduler, sched_lock, sobj, is_running,
                 last_run_time, nvisits>>

\* add_job(next_run_time=_next_run_time): None adds the job paused
JobAt(nrt) == IF nrt = None THEN PausedJob ELSE nrt

\* _reschedule_with_random_interval lines 84-91: replace_existing=True
reschedule_add_job(p) ==
  /\ th[p].pc = "add_job"
  /\ IsPass(p)
  /\ IF scheduler = 0 THEN UNCHANGED sobj
     ELSE sobj' = [sobj EXCEPT ![scheduler].job = JobAt(next_run_time),
                               ![scheduler].ival = th[p].ival]
  /\ SetTh(p, Idle)
  /\ UNCHANGED <<storeVars, Env, scheduler, sched_lock, is_running,
                 last_run_time, next_run_time, nvisits>>

\* start_scheduler without the check of lines 104-106
start_scheduler_begin_nocheck(t) ==
  /\ t \in Clients /\ th[t].pc = "idle"
  /\ sched_lock = 0
  /\ Constructible # {}
  /\ scheduler' = Min(Constructible)
  /\ sobj' = [sobj EXCEPT ![Min(Constructible)] = [FreshSched EXCEPT !.state = "running"]]
  /\ sched_lock' = t
  /\ SetTh(t, [Idle EXCEPT !.op = "start_scheduler", !.pc = "draw"])
  /\ UNCHANGED <<storeVars, Env, is_running, last_run_time, next_run_time, nvisits>>

\* start_scheduler lines 103-110
start_scheduler_begin(t) ==
  /\ t \in Clients /\ th[t].pc = "idle"
  /\ sched_lock = 0
  /\ IF scheduler # 0 /\ sobj[scheduler].state = "running"
     THEN /\ SetTh(t, Done("start_scheduler", "true"))
          /\ UNCHANGED <<scheduler, sched_lock, sobj>>
     ELSE /\ Constructible # {}
          /\ scheduler' = Min(Constructible)
          /\ sobj' = [sobj EXCEPT ![Min(Constructible)] = [FreshSched EXCEPT !.state = "running"]]
          /\ sched_lock' = t
          /\ SetTh(t, [Idle EXCEPT !.op = "start_scheduler", !.pc = "draw"])
  /\ UNCHANGED <<storeVars, Env, is_running, last_run_time, next_run_time, nvisits>>

\* start_scheduler lines 116-129: no replace_existing, so a job already in the
\* store raises ConflictingIdError
start_scheduler_add_job(t) ==
  /\ th[t].pc = "add_job"
  /\ ~IsPass(t)
  /\ IF sobj[scheduler].job # NoJob
     THEN SetTh(t, Done("start_scheduler", "false")) /\ UNCHANGED sobj
     ELSE /\ sobj' = [sobj EXCEPT ![scheduler].job = JobAt(next_run_time),
                                  ![scheduler].ival = th[t].ival]
          /\ SetTh(t, Done("start_scheduler", "true"))
  /\ sched_lock' = 0
  /\ UNCHANGED <<storeVars, Env, scheduler, is_running, last_run_time, next_run_time, nvisits>>

\* stop_scheduler without its shutdown: the reference is dropped, the object runs on
stop_scheduler_begin_noshutdown(t) ==
  /\ t \in Clients /\ th[t].pc = "idle"
  /\ sched_lock = 0
  /\ IF scheduler = 0
     THEN /\ SetTh(t, Done("stop_scheduler", "true"))
          /\ UNCHANGED <<sched_lock, sobj>>
     ELSE /\ sobj' = sobj
          /\ sched_lock' = t
          /\ SetTh(t, [Idle EXCEPT !.op = "stop_scheduler", !.pc = "stop_none"])
  /\ UNCHANGED <<storeVars, Env, scheduler, is_running, last_run_time, next_run_time, nvisits>>

\* stop_scheduler lines 136-141: shutdown(wait=False)
stop_scheduler_begin(t) ==
  /\ t \in Clients /\ th[t].pc = "idle"
  /\ sched_lock = 0
  /\ IF scheduler = 0
     THEN /\ SetTh(t, Done("stop_scheduler", "true"))
          /\ UNCHANGED <<sched_lock, sobj>>
     ELSE /\ sobj' = [sobj EXCEPT ![scheduler].state = "stopped"]
          /\ sched_lock' = t
          /\ SetTh(t, [Idle EXCEPT !.op = "stop_scheduler", !.pc = "stop_none"])
  /\ UNCHANGED <<storeVars, Env, scheduler, is_running, last_run_time, next_run_time, nvisits>>

\* line 142: the last reference to the object that was shut down goes
stop_scheduler_none(t) ==
  /\ th[t].pc = "stop_none"
  /\ scheduler' = 0
  /\ sobj' = [sobj EXCEPT ![scheduler] = IF @.state = "stopped" THEN FreshSched ELSE @]
  /\ SetTh(t, [th[t] EXCEPT !.pc = "stop_next"])
  /\ UNCHANGED <<storeVars, Env, sched_lock, is_running, last_run_time,
                 next_run_time, nvisits>>

\* lines 143-145
stop_scheduler_next(t) ==
  /\ th[t].pc = "stop_next"
  /\ next_run_time' = None
  /\ sched_lock' = 0
  /\ SetTh(t, Done("stop_scheduler", "true"))
  /\ UNCHANGED <<storeVars, Env, scheduler, sobj, is_running, last_run_time, nvisits>>

\* trigger_immediate_run
trigger_immediate_run(t) ==
  /\ t \in Clients /\ th[t].pc = "idle"
  /\ IF is_running
     THEN SetTh(t, Done("trigger_immediate_run", "false"))
     ELSE /\ FreePass # {}
          /\ th' = [th EXCEPT ![t] = Done("trigger_immediate_run", "true"),
                              ![Min(FreePass)] = NewPass(0)]
  /\ UNCHANGED <<storeVars, Env, schedVars, nvisits>>

\* is_scheduler_running, get_scheduler_status
is_scheduler_running == scheduler # 0 /\ sobj[scheduler].state = "running"
get_scheduler_status ==
  [running |-> is_scheduler_running, last_run |-> last_run_time,
   next_run |-> next_run_time, is_visiting |-> is_running]

(***************************************************************************)
(* The state after import: nothing cached, no scheduler, no thread in a    *)
(* call.  The local file and the gist hold what an earlier run left.       *)
(***************************************************************************)
OldSite == [id |-> 0, url |-> "a", enabled |-> TRUE]
OldSnapshot == [w |-> <<OldSite>>, s |-> [min |-> 1, max |-> 1], h |-> <<>>]
OldSnapshots == {EmptySnapshot, OldSnapshot}

InitHeap ==
  /\ wl = [i \in WIds |-> <<>>]
  /\ so = [i \in SIds |-> NoSite]
  /\ st = [i \in TIds |-> IF i = DEFAULT_S THEN DefaultSettings ELSE NoSett]

InitProgram ==
  /\ now = 1
  /\ cache = NoData
  /\ cache_loaded = FALSE
  /\ data_lock = 0
  /\ InitHeap
  /\ th = [t \in Threads |-> Idle]
  /\ scheduler = 0
  /\ sched_lock = 0
  /\ sobj = [o \in SchedIds |-> FreshSched]
  /\ is_running = FALSE
  /\ last_run_time = None
  /\ next_run_time = None

InitGlobals == InitProgram /\ nvisits = 0

\* the import of playwright at line 13 of browser_worker.py succeeded
InitCommon == InitGlobals /\ playwright_available = TRUE

Init ==
  /\ InitCommon
  /\ gist_configured \in BOOLEAN
  /\ local_file \in {FileAbsent, FileCorrupt} \cup {FileOk(v) : v \in OldSnapshots}
  /\ gist \in {[kind |-> "missing", val |-> EmptySnapshot],
               [kind |-> "malformed", val |-> EmptySnapshot]}
              \cup {FileOk(v) : v \in OldSnapshots}

(***************************************************************************)
(* The scheduler with its callers: one foreground thread starts, stops and *)
(* triggers, another changes the settings, the timer fires.                *)
(***************************************************************************)
InitSched ==
  /\ InitCommon
  /\ gist_configured = FALSE
  /\ local_file = FileOk(OldSnapshot)
  /\ gist = [kind |-> "missing", val |-> EmptySnapshot]

PassNext(p) ==
  \/ run_visits_begin(p)
  \/ run_visits_sites(p)
  \/ visit_all_settings(p)
  \/ visit_all_next(p)
  \/ visit_all_return(p)
  \/ run_visits_finally(p)
  \/ reschedule_check(p)
  \/ reschedule_get_jobs(p)
  \/ reschedule_remove_job(p)
  \/ reschedule_add_job(p)

DrawNext(t) ==
  \/ get_random_interval_settings(t)
  \/ get_random_interval_min(t)
  \/ get_random_interval_max(t)
  \/ set_next_run_time(t)

ControlNext(t) ==
  \/ start_scheduler_begin(t)
  \/ start_scheduler_add_job(t)
  \/ stop_scheduler_begin(t)
  \/ stop_scheduler_none(t)
  \/ stop_scheduler_next(t)
  \/ trigger_immediate_run(t)

TimerNext == \E o \in SchedIds : timer_fire(o) \/ timer_skip(o)

StoreOps(t) ==
  \/ \E u \in Urls : add_website_load(t, u)
  \/ add_website_append(t)
  \/ \E id \in 0..MaxNow : remove_website_load(t, id)
  \/ \E id \in 0..MaxNow : toggle_website_load(t, id)
  \/ toggle_website_set(t)
  \/ \E a \in SettingsInputs : update_settings_load(t, a[1], a[2])
  \/ update_settings_min(t)
  \/ update_settings_max(t)
  \/ \E u \in Urls : visit_website_load(t, u)
  \/ clear_visit_history_load(t)
  \/ refresh_cache_invalidate(t)
  \/ refresh_cache_load(t)
  \/ get_data(t)
  \/ save_data_cache(t)
  \/ save_data_local(t)

SettingsNext(t) ==
  \/ \E a \in SettingsInputs : update_settings_load(t, a[1], a[2])
  \/ update_settings_min(t)
  \/ update_settings_max(t)

SavesNext == \E t \in Threads : save_data_cache(t) \/ save_data_local(t)

\* The whole program: every thread may make every call.
Next ==
  \/ \E t \in Clients : StoreOps(t) \/ ControlNext(t)
  \/ \E p \in Passes : PassNext(p)
  \/ \E t \in Threads : DrawNext(t)
  \/ SavesNext
  \/ TimerNext
  \/ Tick

Spec == Init /\ [][Next]_vars

\* One foreground thread using the Persistence Cache, whatever the files and the gist hold.
CacheNext ==
  \/ \E u \in Urls : add_website_load(1, u)
  \/ add_website_append(1)
  \/ SettingsNext(1)
  \/ visit_website_load(1, "a")
  \/ refresh_cache_invalidate(1)
  \/ refresh_cache_load(1)
  \/ get_data(1)
  \/ save_data_cache(1)
  \/ save_data_local(1)

CacheSpec == Init /\ [][CacheNext]_vars

\* One foreground thread saving: a site added, the settings changed, a visit recorded.
SaveNext ==
  \/ \E u \in Urls : add_website_load(1, u)
  \/ add_website_append(1)
  \/ SettingsNext(1)
  \/ visit_website_load(1, "a")
  \/ get_data(1)
  \/ save_data_cache(1)
  \/ save_data_local(1)

SaveSpec == Init /\ [][SaveNext]_vars

\* Two foreground threads changing sites and history at once, in local-only mode.
InitRace ==
  /\ InitCommon
  /\ gist_configured = FALSE
  /\ local_file = FileOk(OldSnapshot)
  /\ gist = [kind |-> "missing", val |-> EmptySnapshot]

RaceNext ==
  \E t \in Clients :
    \/ \E u \in Urls : add_website_load(t, u)
    \/ add_website_append(t)
    \/ remove_website_load(t, 0)
    \/ visit_website_load(t, "a")
    \/ save_data_cache(t)
    \/ save_data_local(t)

RaceSpec == InitRace /\ [][RaceNext]_vars

\* One foreground thread adding, removing and toggling sites, in local-only mode.
AddUrls == {"A", "b"}

InitSites ==
  /\ InitCommon
  /\ gist_configured = FALSE
  /\ local_file \in {FileAbsent, FileCorrupt} \cup {FileOk(v) : v \in OldSnapshots}
  /\ gist = [kind |-> "missing", val |-> EmptySnapshot]

SitesNext ==
  \/ \E u \in AddUrls : add_website_load(1, u)
  \/ add_website_append(1)
  \/ \E id \in 0..MaxNow : remove_website_load(1, id)
  \/ \E id \in 0..MaxNow : toggle_website_load(1, id)
  \/ toggle_website_set(1)
  \/ refresh_cache_invalidate(1)
  \/ refresh_cache_load(1)
  \/ save_data_cache(1)
  \/ save_data_local(1)
  \/ Tick

SitesSpec == InitSites /\ [][SitesNext]_vars

\* One foreground thread recording visits on histories of several ages and lengths.
MaxAge == HISTORY_MAX_AGE_DAYS * MinutesPerDay

OldRecord(ts) == [url |-> "a", ts |-> ts, ok |-> TRUE, err |-> ""]

\* an hour old, unparsable, three days old to the minute, four days old
AgedHistory == <<OldRecord(-59), OldRecord(InvalidTs), OldRecord(1 - MaxAge), OldRecord(1 - MaxAge - MinutesPerDay)>>

\* n records of the last hours, the newest first
RecentHistory(n) == [i \in 1..n |-> OldRecord(0 - i)]

HistoryInputs ==
  {<<>>, AgedHistory, RecentHistory(HistoryCap - 1), RecentHistory(HistoryCap),
   RecentHistory(HistoryCap - 1) \o <<OldRecord(1 - MaxAge - MinutesPerDay)>>}

InitHistory ==
  /\ InitCommon
  /\ gist_configured = FALSE
  /\ local_file \in {FileOk([OldSnapshot EXCEPT !.h = h]) : h \in HistoryInputs}
  /\ gist = [kind |-> "missing", val |-> EmptySnapshot]

HistoryNext ==
  \/ get_data(1)
  \/ visit_website_load(1, "a")
  \/ clear_visit_history_load(1)
  \/ save_data_cache(1)
  \/ save_data_local(1)
  \/ Tick

HistorySpec == InitHistory /\ [][HistoryNext]_vars

\* One foreground thread visiting a site, with and without playwright.
InitVisit ==
  /\ InitGlobals
  /\ playwright_available \in BOOLEAN
  /\ gist_configured \in BOOLEAN
  /\ local_file \in {FileOk(v) : v \in OldSnapshots}
  /\ gist = FileOk(EmptySnapshot)

VisitNext ==
  \/ \E take_screenshot \in BOOLEAN : visit_website_call(1, "a", take_screenshot)
  \/ visit_launch(1)
  \/ visit_goto(1)
  \/ visit_screenshot(1)
  \/ visit_close(1)
  \/ visit_record(1)
  \/ visit_except(1)
  \/ visit_return(1)
  \/ get_data(1)
  \/ save_data_cache(1)
  \/ save_data_local(1)

VisitSpec == InitVisit /\ [][VisitNext]_vars

\* The scheduler started, stopped and triggered by one foreground thread.
TrigNext ==
  \/ \E p \in Passes : PassNext(p)
  \/ \E t \in Threads : DrawNext(t)
  \/ SavesNext
  \/ ControlNext(1)
  \/ TimerNext
  \/ Tick

TrigSpec == InitSched /\ [][TrigNext]_vars

\* Two foreground threads start the scheduler, one of them stops it.
StartNext ==
  \/ \E p \in Passes : PassNext(p)
  \/ \E t \in Threads : DrawNext(t)
  \/ SavesNext
  \/ \E t \in Clients : start_scheduler_begin(t) \/ start_scheduler_add_job(t)
  \/ stop_scheduler_begin(1)
  \/ stop_scheduler_none(1)
  \/ stop_scheduler_next(1)
  \/ TimerNext
  \/ Tick

StartSpec == InitSched /\ [][StartNext]_vars

\* Passes over two sites, started by hand, while a foreground thread toggles the second site.
TwoSites ==
  [w |-> <<[id |-> 1, url |-> "a", enabled |-> TRUE], [id |-> 2, url |-> "b", enabled |-> TRUE]>>,
   s |-> [min |-> 1, max |-> 1], h |-> <<>>]

InitVisitAll ==
  /\ InitProgram
  /\ nvisits = MaxVisits - MaxSites      \* room for one visit of each site
  /\ playwright_available = TRUE
  /\ gist_configured = FALSE
  /\ local_file = FileOk(TwoSites)
  /\ gist = [kind |-> "missing", val |-> EmptySnapshot]

VisitAllNext ==
  \/ trigger_immediate_run(1)
  \/ \E p \in Passes :
       \/ run_visits_begin(p)
       \/ run_visits_sites(p)
       \/ visit_all_settings(p)
       \/ visit_all_next(p)
       \/ visit_all_return(p)
       \/ run_visits_finally(p)
       \/ reschedule_check(p)
  \/ toggle_website_load(1, TwoSites.w[2].id)
  \/ toggle_website_set(1)
  \/ SavesNext

VisitAllSpec == InitVisitAll /\ [][VisitAllNext]_vars

\* The scheduler started and never stopped, while a foreground thread changes the settings.
RearmNext ==
  \/ \E p \in Passes : PassNext(p)
  \/ \E t \in Threads : DrawNext(t)
  \/ SavesNext
  \/ start_scheduler_begin(1)
  \/ start_scheduler_add_job(1)
  \/ SettingsNext(2)
  \/ TimerNext
  \/ Tick

RearmSpec == InitSched /\ [][RearmNext]_vars

(***************************************************************************)
(* The properties of the specification, claim by claim.                    *)
(***************************************************************************)
\* a pass is executing from the moment it has set _is_running (line 41) until it
\* clears it (line 60): the body of the try block of _run_visits
Executing(p) ==
  th[p].pc \in {"rv_sites", "va_settings", "visit", "save", "save_local", "rv_finally"}

AllIdle == \A t \in Threads : th[t].pc = "idle"

\* the document the cache would serialize to
CacheVal == IF cache = NoData THEN EmptySnapshot ELSE SnapVal(cache)

\* the scheduler has a timer pending
Armed == scheduler # 0 /\ sobj[scheduler].state = "running" /\ sobj[scheduler].job >= 0

\* stop() has returned, or start() was never called
Stopped == scheduler = 0 /\ sched_lock = 0

\* C1: at most one probe pass executes at any instant, whether it was started
\* by the timer or by trigger_immediate_run.
C1_AtMostOnePass == Cardinality({p \in Passes : Executing(p)}) <= 1

\* C2: no update is lost when operations run concurrently: once every call has
\* returned, each visit that was recorded is in the history of the cache and
\* of the local file (nothing in RaceSpec removes or ages a record).
C2_NoLostUpdate ==
  (AllIdle /\ cache # NoData) =>
     /\ Len(cache.h) = nvisits
     /\ local_file.kind = "ok" /\ Len(local_file.val.h) = nvisits

\* C3: with the scheduler started and never stopped, every scheduled pass that
\* finishes leaves a timer armed for the next pass.
C3_PassRearms ==
  [][\A p \in Passes :
       (th[p].pc # "idle" /\ th[p].origin # 0 /\ th'[p].pc = "idle" /\ scheduler' # 0)
         => sobj'[scheduler'].job >= 0]_vars

\* C4: a load with no valid cache, in remote mode, whose fetch fails adopts the
\* content of the local file (here the gist holds no usable document, so every
\* fetch fails, and the local file holds a Snapshot).
C4_FallbackToLocal ==
  [][(/\ ~(cache_loaded /\ cache # NoData)
      /\ gist_configured /\ gist.kind # "ok"
      /\ local_file.kind = "ok"
      /\ cache_loaded')
        => CacheVal' = local_file.val]_vars

C6_BusyTrigger ==
  [][(trigger_immediate_run(1) /\ \E p \in Passes : Executing(p))
       => /\ th'[1].ret = "false"
          /\ \A p \in Passes : th'[p] = th[p]
          /\ UNCHANGED <<storeVars, schedVars>>]_vars

\* C7: a pass started by trigger_immediate_run while the scheduler is armed
\* leaves the pending timer untouched: none of its steps changes the job of the
\* scheduler or _next_run_time.
C7_ManualKeepsTimer ==
  [][\A p \in Passes :
       (Armed /\ th[p].pc # "idle" /\ th[p].origin = 0 /\ th'[p] # th[p])
         => (sobj' = sobj /\ next_run_time' = next_run_time)]_vars

\* C8: once stop() has returned no timer is left that could start a pass, a
\* pass that was in flight arms none, no timer-initiated pass starts, and the
\* steps of stop() leave the passes in flight alone.
C8_StopIsFinal ==
  /\ [](Stopped => \A o \in SchedIds : sobj[o].state # "running" /\ sobj[o].job = NoJob)
  /\ [][\A p \in Passes :
          /\ (Stopped /\ th[p].pc = "idle" /\ th'[p].pc # "idle") => th'[p].origin = 0
          /\ (stop_scheduler_begin(1) \/ stop_scheduler_none(1) \/ stop_scheduler_next(1))
               => th'[p] = th[p]]_vars

\* C8 witness: stop() has returned while a timer-initiated pass is in flight,
\* about to add its job.
C8_Witness ==
  /\ Stopped /\ th[1].op = "stop_scheduler" /\ th[1].pc = "idle"
  /\ \E p \in Passes : th[p].origin # 0 /\ th[p].pc = "add_job"

\* C9: in every state of the cache between calls the settings satisfy
\* 1 <= interval_min <= interval_max <= 60.
C9_SettingsInvariant ==
  (cache # NoData /\ AllIdle) =>
     /\ MinInterval <= st[cache.s].min
     /\ st[cache.s].min <= st[cache.s].max
     /\ st[cache.s].max <= MaxInterval

\* C10: every interval that is drawn lies between the interval_min and the
\* interval_max of the settings stored at the moment of the draw, whenever
\* those form a range.
C10_DrawInRange ==
  [][\A t \in Threads :
       (/\ th[t].pc = "draw_max" /\ th'[t].pc = "set_next"
        /\ cache # NoData /\ st[cache.s].min <= st[cache.s].max)
         => (st[cache.s].min <= th'[t].ival /\ th'[t].ival <= st[cache.s].max)]_vars

\* two site documents whose urls are equal when case is ignored
SameUrl(a, b) == Lower(a.url) = Lower(b.url)

UniqueUrls(w) == \A i, j \in 1..Len(w) : SameUrl(w[i], w[j]) => i = j

\* C11: whatever add_website, remove_website and toggle_website calls were
\* made, no two sites of the collection (in the cache or in the local file)
\* have urls equal up to case, and an add_website whose url equals an existing
\* one up to case returns False, starts no save and leaves the snapshot alone.
C11_UniqueUrls ==
  /\ [](UniqueUrls(CacheVal.w) /\ (local_file.kind = "ok" => UniqueUrls(local_file.val.w)))
  /\ [][\A u \in AddUrls :
          (add_website_load(1, u)
             /\ \E i \in 1..Len(CacheVal'.w) : Lower(CacheVal'.w[i].url) = Lower(u))
            => /\ th'[1] = Done("add_website", "false")
               /\ (cache # NoData => (CacheVal' = CacheVal /\ local_file' = local_file))]_vars

\* C11 witness: the collection holds the one site "a" and an add_website has
\* returned False: the url it was given is "A".
C11_Witness ==
  /\ th[1] = Done("add_website", "false")
  /\ Len(CacheVal.w) = 1 /\ CacheVal.w[1].url = "a"

\* C12: after any add_website and remove_website calls no two sites of the
\* collection have the same id, also when two sites were added at one clock reading.
C12_UniqueIds ==
  \A i, j \in 1..Len(CacheVal.w) : CacheVal.w[i].id = CacheVal.w[j].id => i = j

\* the save that ends an add_visit_record of thread 1 writes the local file
RecordSaved == th[1].op = "visit_website" /\ th[1].pc = "save_local" /\ th'[1].pc = "idle"

\* C13: after every add_visit_record the persisted history holds no record
\* timestamped more than 3 days before the append, and holds every record that
\* was stored before and is less than 3 days old, unless the history is at
\* its cap of 100.
C13_Retention ==
  [][RecordSaved =>
       LET old == local_file.val.h
           new == local_file'.val.h
           at == new[1].ts      \* the time of the append
       IN /\ new # <<>>
          /\ \A k \in 1..Len(new) :
               new[k].ts # InvalidTs => new[k].ts >= at - MaxAge
          /\ \A j \in 1..Len(old) :
               (old[j].ts # InvalidTs /\ old[j].ts > at - MaxAge)
                 => (Len(new) = HistoryCap \/ \E k \in 2..Len(new) : new[k] = old[j])]_vars

\* C13 witness: a visit was recorded on the history that held records an hour
\* and four days old: the first is still there, the second is gone.
C13_Witness ==
  /\ th[1] = Done("visit_website", "none")
  /\ local_file.val.h # <<>>
  /\ Tail(local_file.val.h) = <<OldRecord(-59), OldRecord(InvalidTs)>>

\* C14: after every add_visit_record the persisted history has at most 100
\* entries and the new record is the first; when 100 records younger than 3
\* days were stored, the one evicted is the last of the list, the oldest.
C14_Cap ==
  [][RecordSaved =>
       LET old == local_file.val.h
           new == local_file'.val.h
       IN /\ Len(new) <= HistoryCap
          /\ Len(new) >= 1
          /\ new[1].url = th[1].url /\ new[1].ok = th[1].ok /\ new[1].err = th[1].err
          /\ new[1].ts \in 1..now
          /\ (Len(old) = HistoryCap /\ \A j \in 1..Len(old) : old[j].ts > new[1].ts - MaxAge)
               => /\ Tail(new) = SubSeq(old, 1, HistoryCap - 1)
                  /\ \A j \in 1..Len(old) : old[HistoryCap].ts <= old[j].ts]_vars

\* C14 witness: a visit was recorded on a history of 100 recent records; 100
\* are stored, the new one first, and the one that was last is gone.
C14_Witness ==
  /\ th[1] = Done("visit_website", "none")
  /\ Len(local_file.val.h) = HistoryCap
  /\ local_file.val.h[1].ts >= 1
  /\ local_file.val.h[HistoryCap] = OldRecord(1 - HistoryCap)

\* visit_website has returned its outcome to thread t
Returned(t) == th[t].op = "visit" /\ th[t].pc = "idle" /\ th[t].ret = "returned"

\* the newest record of the persisted history is the outcome thread t holds
RecordedOutcome(t) ==
  /\ local_file.kind = "ok" /\ local_file.val.h # <<>>
  /\ LET rec == Head(local_file.val.h)
     IN rec.url = th[t].url /\ rec.ok = th[t].ok /\ rec.err = th[t].err

\* C15: every call of visit_website appends exactly one record for its url, on
\* each return path, with the success and the error message of the outcome it
\* returns (the history starts empty and nothing removes from it here, so it
\* must hold as many records as calls were made).
C15_OneRecordPerVisit ==
  Returned(1) => (RecordedOutcome(1) /\ Len(local_file.val.h) = nvisits)

\* C16: when navigation and the hold period succeed and the screenshot is
\* asked for, a failure of page.screenshot still gives a successful outcome
\* and a success record.
C16_ScreenshotBestEffort ==
  (Returned(1) /\ th[1].at = "screenshot") => (th[1].ok /\ RecordedOutcome(1))

\* C17: a visit whose navigation times out returns success=false with the
\* timeout message and records the same, and no other failure gives that message.
C17_NavigationTimeout ==
  /\ (Returned(1) /\ th[1].at = "goto" /\ th[1].exc = "timeout")
       => (~th[1].ok /\ th[1].err = TimeoutMsg /\ RecordedOutcome(1))
  /\ (Returned(1) /\ th[1].err = TimeoutMsg)
       => (th[1].at = "goto" /\ th[1].exc = "timeout")

\* C18: on every path of visit_website after the browser was launched, the
\* browser is closed when the outcome is returned (and already when it is
\* recorded), and one outcome is returned.
C18_BrowserClosed ==
  /\ (th[1].op = "visit" /\ th[1].pc \in {"save", "save_local", "v_return", "idle"})
       => th[1].browser # "open"
  /\ (Returned(1) /\ th[1].err # NotInstalledMsg /\ th[1].at # "launch")
       => th[1].browser = "closed"
  /\ (Returned(1) /\ th[1].at = "launch") => th[1].browser = "none"

\* C18 witness: the navigation raised after the browser was launched, the
\* failed outcome was recorded and returned, and the browser is closed.
C18_Witness ==
  /\ Returned(1) /\ th[1].at = "goto" /\ th[1].exc = "error"
  /\ ~th[1].ok /\ th[1].browser = "closed" /\ RecordedOutcome(1)

\* a load that ran with no valid cache, in remote mode, and adopted what it
\* fetched (a failed fetch adopts the objects of DEFAULT_DATA)
FetchedLoad ==
  /\ ~(cache_loaded /\ cache # NoData)
  /\ gist_configured /\ gist.kind = "ok"
  /\ cache_loaded' /\ cache'.w # DEFAULT_W

\* C19: a load with no valid cache whose remote fetch succeeds adopts the
\* fetched Snapshot as the cache and writes it to the local file, so that the
\* local file equals the cache after the load.
C19_LoadBacksUp ==
  [][FetchedLoad => (CacheVal' = gist.val /\ local_file' = FileOk(CacheVal'))]_vars

\* C20: the content of the cache changes only in _load_data (a load that
\* finds no valid cache), in _save_data and in refresh_cache: what a caller
\* does to the Snapshot it was given never shows in the cache before it is saved.
C20_CacheOwnsSnapshot ==
  [][\/ CacheVal' = CacheVal
     \/ (~(cache_loaded /\ cache # NoData) /\ cache_loaded')
     \/ \E t \in Threads : save_data_cache(t)
     \/ \E t \in Clients : refresh_cache_invalidate(t)]_vars

\* a load that ran with no valid cache and fell back to DEFAULT_DATA
DefaultLoad ==
  /\ ~(cache_loaded /\ cache # NoData)
  /\ cache_loaded' /\ cache'.w = DEFAULT_W /\ cache'.s = DEFAULT_S

\* C21: whenever _load_data falls back to the default Snapshot, what it caches
\* and returns has no sites, no history and the default settings, whatever
\* was done earlier in the process.
C21_DefaultsStayEmpty ==
  [][DefaultLoad => CacheVal' = EmptySnapshot]_vars

CacheValid == cache_loaded /\ cache # NoData

\* C22: a load that finds a valid cache fetches nothing, reads no file and
\* returns the cached content; the load that follows the invalidation of
\* refresh_cache fetches from the gist when it is configured; refresh_cache
\* leaves a valid cache behind.
C22_CacheShortCircuit ==
  [][/\ (get_data(1) /\ CacheValid)
          => /\ ~th'[1].had /\ ~th'[1].fetched
             /\ cache' = cache /\ CacheVal' = CacheVal
             /\ local_file' = local_file /\ gist' = gist
     /\ refresh_cache_invalidate(1) => ~CacheValid'
     /\ refresh_cache_load(1)
          => /\ th'[1].had
             /\ gist_configured => th'[1].fetched
             /\ CacheValid']_vars

\* C22 witness: refresh_cache has returned in remote mode, its load fetched,
\* and the cache is valid.
C22_Witness ==
  /\ gist_configured /\ CacheValid
  /\ th[1] = [Done("refresh_cache", "none") EXCEPT !.had = TRUE, !.fetched = TRUE]

\* a scheduler instance exists: the scheduler is Armed or Running
Started == scheduler # 0

Timers == {o \in SchedIds : sobj[o].state = "running" /\ sobj[o].job # NoJob}

\* C23: start_scheduler called while a scheduler instance exists returns True
\* and changes nothing: no instance is created, no job is added, the job's
\* fire time and _next_run_time stay as they were; this holds for each of two
\* threads that call it concurrently, and there is never a second timer.
C23_StartIdempotent ==
  /\ [](Cardinality(Timers) <= 1)
  /\ [][\A t \in Clients :
          (start_scheduler_begin(t) /\ Started)
            => /\ th'[t] = Done("start_scheduler", "true")
               /\ UNCHANGED <<scheduler, sobj, sched_lock, next_run_time>>]_vars

\* C23 witness: both threads have called start_scheduler, the second call found
\* the scheduler of the first, and one timer is pending.
C23_Witness ==
  /\ Armed /\ sched_lock = 0
  /\ th[1] = Done("start_scheduler", "true")
  /\ th[2] = Done("start_scheduler", "true")

\* C24: remove_website with an id that is in the collection removes exactly
\* the site of that id and returns True, and the collection the cache holds
\* after it has no site of that id; with an id that is not in the collection
\* it returns False, writes nothing to the gist, and leaves a valid cache and
\* the local file as they were.
C24_RemoveExact ==
  [][/\ \A id \in 0..MaxNow :
          remove_website_load(1, id) =>
            LET sites == CacheVal'.w
                kept == SnapVal(th[1].data)'.w
            IN IF \E i \in 1..Len(sites) : sites[i].id = id
               THEN /\ th'[1].pc = "save"
                    /\ Len(kept) = Len(sites) - 1
                    /\ \A i \in 1..Len(kept) : kept[i].id # id
               ELSE /\ th'[1] = Done("remove_website", "false")
                    /\ gist' = gist
                    /\ CacheValid => /\ UNCHANGED <<cache, local_file>>
                                     /\ CacheVal' = CacheVal
     /\ (th[1].op = "remove_website" /\ save_data_local(1))
          => /\ th'[1] = Done("remove_website", "true")
             /\ \A i \in 1..Len(CacheVal'.w) : CacheVal'.w[i].id # th[1].id]_vars

VisitingAll(p) == IsPass(p) /\ th[p].pc \in {"visit", "save", "save_local"}

ResultUrls(p) == [i \in 1..Len(th[p].results) |-> th[p].results[i].url]

SiteUrls(p) == [i \in 1..Len(th[p].sites) |-> so[th[p].sites[i]].url]

\* s is made of elements of t, in the order they have in t
RECURSIVE InOrder(_, _)
InOrder(s, t) ==
  IF s = <<>> THEN TRUE
  ELSE IF t = <<>> THEN FALSE
  ELSE IF Head(s) = Head(t) THEN InOrder(Tail(s), Tail(t))
  ELSE InOrder(s, Tail(t))

\* C25: visit_all_websites goes through the sites it was given in list order,
\* one visit at a time: a site that is disabled when its turn comes is
\* skipped with no visit and no outcome, an enabled one is visited and, when
\* its visit has returned, gets the next outcome of results; the outcomes
\* followed by the sites still to come are in the order of the collection.
C25_VisitAllInOrder ==
  /\ [](\A p \in Passes : VisitingAll(p) =>
          InOrder(ResultUrls(p) \o SiteUrls(p), <<"a", "b">>))
  /\ [][\A p \in Passes :
          /\ (visit_all_next(p) /\ ~so[Head(th[p].sites)].enabled)
               => /\ nvisits' = nvisits
                  /\ CacheVal'.h = CacheVal.h
                  /\ th'[p] = [th[p] EXCEPT !.sites = Tail(@)]
          /\ (visit_all_next(p) /\ so[Head(th[p].sites)].enabled)
               => /\ nvisits' = nvisits + 1
                  /\ th'[p].pc = "save"
                  /\ th'[p].url = so[Head(th[p].sites)].url
                  /\ th'[p].sites = th[p].sites
                  /\ th'[p].results = th[p].results
          /\ (IsPass(p) /\ save_data_local(p))
               => /\ th'[p].results =
                       Append(th[p].results, [url |-> th[p].url, success |-> th[p].ok])
                  /\ th'[p].sites = Tail(th[p].sites)
          /\ visit_all_return(p) => th[p].sites = <<>>]_vars

\* C25 witness: a pass over two enabled sites is about to return from
\* visit_all_websites with the outcome of "a" and then the outcome of "b".
C25_Witness ==
  \E p \in Passes : /\ VisitingAll(p) /\ th[p].sites = <<>>
                    /\ ResultUrls(p) = <<"a", "b">>

\* C26: the error message of every outcome visit_website returns, and of every
\* record of the persisted history, is at most MaxMsgLen long, also when the
\* text of the exception is longer.
C26_BoundedMessage ==
  /\ Returned(1) => MsgLen(th[1].err) <= MaxMsgLen
  /\ local_file.kind = "ok" =>
       \A i \in 1..Len(local_file.val.h) : MsgLen(local_file.val.h[i].err) <= MaxMsgLen

\* C27: the is_visiting field of get_scheduler_status (_is_running) is true
\* exactly when some pass is executing, whichever way the passes were started.
C27_FlagTracksPass ==
  get_scheduler_status.is_visiting <=> \E p \in Passes : Executing(p)

\* C28: whenever the scheduler is stopped (no scheduler instance, running
\* false in get_scheduler_status, stop_scheduler not in progress), the
\* next_run field of get_scheduler_status is None, also when a pass was
\* re-arming while stop_scheduler ran.
C28_StoppedHasNoNextRun ==
  (Stopped /\ ~get_scheduler_status.running) => get_scheduler_status.next_run = None

====
